---- MODULE Spec2Model ----
(***************************************************************************)
(* Citation parser and scoring engine of app.py (canti-neocatecumenali).   *)
(*                                                                         *)
(* Three specifications share the definitions of this module:              *)
(*   Spec        parse_reference_flexible applied to citation texts        *)
(*   SpecOverlap verse_overlap and score_song_for_reading on two Refs      *)
(*   SpecScore   the loop of score_song_for_reading, one reading           *)
(*               reference per step                                        *)
(*                                                                         *)
(* Text is a sequence of characters; a character is a one-letter string,   *)
(* except the tabulator, written "tab", and the non-ASCII characters the   *)
(* source mentions: "ndash" (U+2013), "egrave" (U+00E8, standing for the   *)
(* accented letters of the patterns) and "rsquo" (U+2019).                 *)
(* Python floats are modelled as exact rationals <<num, den>>, den > 0.    *)
(***************************************************************************)
EXTENDS Integers, Sequences, FiniteSets, TLC

VARIABLES
    inp,        \* parser: the pieces the input text was written from
    text,       \* parser: argument of parse_reference_flexible
    refs,       \* parser: local list refs (Grammar A matches, then Grammar B)
    uniq,       \* parser: returned list
    pc,         \* parser: "input" | "parsed"
    a, b,       \* overlap: the two Refs
    ovl,        \* overlap: verse_overlap(a, b)
    ovl_rev,    \* overlap: verse_overlap(b, a)
    sc,         \* overlap: score_song_for_reading([a], Song(refs=[b]))
    pcO,        \* overlap: "idle" | "input" | "overlapped" | "scored"
    song_refs,  \* score loop: song.refs
    n,          \* score loop: reading references consumed so far
    best,       \* score loop: local best of the last iteration
    score,      \* score loop: local score
    ret,        \* score loop: returned value
    pcS         \* score loop: "idle" | "start" | "loop" | "done"

vars == <<inp, text, refs, uniq, pc, a, b, ovl, ovl_rev, sc, pcO,
          song_refs, n, best, score, ret, pcS>>

parseVars == <<inp, text, refs, uniq, pc>>
overlapVars == <<a, b, ovl, ovl_rev, sc, pcO>>
scoreVars == <<song_refs, n, best, score, ret, pcS>>

----------------------------------------------------------------------------
(* Bounds of the model *)

MaxVerse == 2       \* verses 1..MaxVerse in the scored References
MaxChapter == 2     \* chapters 1..MaxChapter in the scored References
WideVerse == 11     \* one far verse, so that a Jaccard overlap below 1/10 exists
MaxReading == 3     \* reading references consumed by the score loop
MaxSong == 2        \* length of song.refs in the score loop
MaxDigit == 2       \* digits "0".."MaxDigit" written in the parsed texts

----------------------------------------------------------------------------
(* Optional[int]: None is the absent value; int() of \d+ is never negative *)

None == -1

(* Ref dataclass *)
Ref(book, chapter, v1, v2, raw) ==
    [book |-> book, chapter |-> chapter, v1 |-> v1, v2 |-> v2, raw |-> raw]

----------------------------------------------------------------------------
(* Characters and the character classes of the two patterns *)

DigitChars == <<"0", "1", "2", "3", "4", "5", "6", "7", "8", "9">>
LowerLetters == <<"a", "b", "c", "d", "e", "f", "g", "h", "i", "j", "k", "l", "m", "n", "o", "p", "q", "r", "s", "t", "u", "v", "w", "x", "y", "z">>
UpperLetters == <<"A", "B", "C", "D", "E", "F", "G", "H", "I", "J", "K", "L", "M", "N", "O", "P", "Q", "R", "S", "T", "U", "V", "W", "X", "Y", "Z">>

DigitSet == {DigitChars[k] : k \in 1..10}                    \* \d
SpaceSet == {" ", "tab"}                                     \* \s
UpperSet == {UpperLetters[k] : k \in 1..26}
LetterSet == {LowerLetters[k] : k \in 1..26} \cup UpperSet \cup {"egrave"}
WordSet == LetterSet \cup DigitSet \cup {"_"}                \* \w
HyphenSet == {"-", "ndash"}                                  \* [\-–]
BookCharSet == LetterSet \cup {"."}                          \* [A-Za-z...\.]
RangeCharSet == DigitSet \cup HyphenSet                      \* [\d\-–]
NameCharSet == LetterSet \cup SpaceSet                       \* [A-Za-z...\s]
VTextCharSet == DigitSet \cup SpaceSet \cup HyphenSet \cup {"e", "E"}  \* [\d\s\-–e]

\* str.lower() of one character
ToLower(c) ==
    IF c \in UpperSet
    THEN LowerLetters[CHOOSE k \in 1..26 : UpperLetters[k] = c]
    ELSE c

\* str.lower()
Lower(t) == [k \in 1..Len(t) |-> ToLower(t[k])]

\* int() of one digit
DigitVal(c) == (CHOOSE k \in 1..10 : DigitChars[k] = c) - 1

IMax(x, y) == IF x >= y THEN x ELSE y
IMin(x, y) == IF x <= y THEN x ELSE y

\* int() of a string of digits
RECURSIVE IntFrom(_, _, _)
IntFrom(t, i, acc) ==
    IF i > Len(t) THEN acc ELSE IntFrom(t, i + 1, 10 * acc + DigitVal(t[i]))

ToInt(t) == IntFrom(t, 1, 0)

\* index after the longest run of characters of class S that starts at i
RECURSIVE RunEnd(_, _, _)
RunEnd(t, i, S) ==
    IF i <= Len(t) /\ t[i] \in S THEN RunEnd(t, i + 1, S) ELSE i

\* \b before position i
WordBoundary(t, i) ==
    (i > 1 /\ i - 1 <= Len(t) /\ t[i - 1] \in WordSet)
        # (i >= 1 /\ i <= Len(t) /\ t[i] \in WordSet)

\* the literal lit at position i
MatchLit(t, i, lit) ==
    /\ i + Len(lit) - 1 <= Len(t)
    /\ \A k \in 1..Len(lit) : t[i + k - 1] = lit[k]

\* the literal lit (lower case) at position i under re.IGNORECASE
MatchLitI(t, i, lit) ==
    /\ i + Len(lit) - 1 <= Len(t)
    /\ \A k \in 1..Len(lit) : ToLower(t[i + k - 1]) = lit[k]

----------------------------------------------------------------------------
(* _clean *)

RECURSIVE LastNonSpace(_, _)
LastNonSpace(t, i) ==
    IF i >= 1 /\ t[i] \in SpaceSet THEN LastNonSpace(t, i - 1) ELSE i

\* str.strip()
Strip(t) == SubSeq(t, RunEnd(t, 1, SpaceSet), LastNonSpace(t, Len(t)))

\* re.sub(r"\s+", " ", t)
RECURSIVE CollapseFrom(_, _)
CollapseFrom(t, i) ==
    IF i > Len(t) THEN <<>>
    ELSE IF t[i] \in SpaceSet
         THEN <<" ">> \o CollapseFrom(t, RunEnd(t, i, SpaceSet))
         ELSE <<t[i]>> \o CollapseFrom(t, i + 1)

clean(t) == CollapseFrom(Strip(t), 1)

----------------------------------------------------------------------------
(* normalize_book *)

\* long-form alias table: <<name, canonical key>>
BOOK_ALIASES ==
  {
    <<<<"g", "e", "n", "e", "s", "i">>, "gen">>,
    <<<<"g", "e", "n">>, "gen">>,
    <<<<"g", "n">>, "gen">>,
    <<<<"e", "s", "o", "d", "o">>, "es">>,
    <<<<"e", "s">>, "es">>,
    <<<<"n", "u", "m", "e", "r", "i">>, "nm">>,
    <<<<"n", "m">>, "nm">>,
    <<<<"d", "e", "u", "t", "e", "r", "o", "n", "o", "m", "i", "o">>, "dt">>,
    <<<<"d", "t">>, "dt">>,
    <<<<"g", "i", "o", "s", "u", "egrave">>, "gs">>,
    <<<<"g", "s">>, "gs">>,
    <<<<"g", "i", "u", "d", "i", "c", "i">>, "gd">>,
    <<<<"g", "d">>, "gd">>,
    <<<<"t", "o", "b", "i", "a">>, "tb">>,
    <<<<"t", "b">>, "tb">>,
    <<<<"s", "a", "l", "m", "i">>, "sal">>,
    <<<<"s", "a", "l", "m", "o">>, "sal">>,
    <<<<"s", "a", "l">>, "sal">>,
    <<<<"q", "o", "e", "l", "e", "t">>, "qo">>,
    <<<<"q", "o">>, "qo">>,
    <<<<"e", "c", "c", "l", "e", "s", "i", "a", "s", "t", "e">>, "qo">>,
    <<<<"c", "a", "n", "t", "i", "c", "o", " ", "d", "e", "i", " ", "c", "a", "n", "t", "i", "c", "i">>, "ct">>,
    <<<<"c", "a", "n", "t", "i", "c", "o">>, "ct">>,
    <<<<"c", "t">>, "ct">>,
    <<<<"i", "s", "a", "i", "a">>, "is">>,
    <<<<"i", "s">>, "is">>,
    <<<<"g", "e", "r", "e", "m", "i", "a">>, "ger">>,
    <<<<"g", "e", "r">>, "ger">>,
    <<<<"j", "r">>, "ger">>,
    <<<<"l", "a", "m", "e", "n", "t", "a", "z", "i", "o", "n", "i">>, "lam">>,
    <<<<"l", "a", "m">>, "lam">>,
    <<<<"e", "z", "e", "c", "h", "i", "e", "l", "e">>, "ez">>,
    <<<<"e", "z">>, "ez">>,
    <<<<"d", "a", "n", "i", "e", "l", "e">>, "dn">>,
    <<<<"d", "n">>, "dn">>,
    <<<<"m", "a", "t", "t", "e", "o">>, "mt">>,
    <<<<"m", "t">>, "mt">>,
    <<<<"m", "a", "r", "c", "o">>, "mc">>,
    <<<<"m", "c">>, "mc">>,
    <<<<"l", "u", "c", "a">>, "lc">>,
    <<<<"l", "c">>, "lc">>,
    <<<<"g", "i", "o", "v", "a", "n", "n", "i">>, "gv">>,
    <<<<"g", "v">>, "gv">>,
    <<<<"a", "t", "t", "i">>, "at">>,
    <<<<"a", "t">>, "at">>,
    <<<<"a", "t", "t", "i", " ", "d", "e", "g", "l", "i", " ", "a", "p", "o", "s", "t", "o", "l", "i">>, "at">>,
    <<<<"r", "o", "m", "a", "n", "i">>, "rm">>,
    <<<<"r", "o", "m">>, "rm">>,
    <<<<"r", "m">>, "rm">>,
    <<<<"1", " ", "c", "o", "r", "i", "n", "z", "i">>, "1cor">>,
    <<<<"1", "c", "o", "r">>, "1cor">>,
    <<<<"i", " ", "c", "o", "r", "i", "n", "z", "i">>, "1cor">>,
    <<<<"2", " ", "c", "o", "r", "i", "n", "z", "i">>, "2cor">>,
    <<<<"2", "c", "o", "r">>, "2cor">>,
    <<<<"i", "i", " ", "c", "o", "r", "i", "n", "z", "i">>, "2cor">>,
    <<<<"e", "f", "e", "s", "i", "n", "i">>, "ef">>,
    <<<<"e", "f">>, "ef">>,
    <<<<"f", "i", "l", "i", "p", "p", "e", "s", "i">>, "fil">>,
    <<<<"f", "i", "l">>, "fil">>,
    <<<<"c", "o", "l", "o", "s", "s", "e", "s", "i">>, "col">>,
    <<<<"c", "o", "l">>, "col">>,
    <<<<"a", "p", "o", "c", "a", "l", "i", "s", "s", "e">>, "ap">>,
    <<<<"a", "p">>, "ap">>
  }

\* short-form table: <<abbreviation, canonical key>>
BOOK_SHORT ==
  {
    <<<<"g", "e", "n">>, "gen">>,
    <<<<"g", "n">>, "gen">>,
    <<<<"e", "s">>, "es">>,
    <<<<"n", "m">>, "nm">>,
    <<<<"d", "t">>, "dt">>,
    <<<<"g", "s">>, "gs">>,
    <<<<"g", "d">>, "gd">>,
    <<<<"t", "b">>, "tb">>,
    <<<<"s", "a", "l">>, "sal">>,
    <<<<"q", "o">>, "qo">>,
    <<<<"c", "t">>, "ct">>,
    <<<<"i", "s">>, "is">>,
    <<<<"g", "e", "r">>, "ger">>,
    <<<<"j", "r">>, "ger">>,
    <<<<"l", "a", "m">>, "lam">>,
    <<<<"e", "z">>, "ez">>,
    <<<<"d", "n">>, "dn">>,
    <<<<"m", "t">>, "mt">>,
    <<<<"m", "c">>, "mc">>,
    <<<<"l", "c">>, "lc">>,
    <<<<"g", "v">>, "gv">>,
    <<<<"a", "t">>, "at">>,
    <<<<"r", "m">>, "rm">>,
    <<<<"1", "c", "o", "r">>, "1cor">>,
    <<<<"2", "c", "o", "r">>, "2cor">>,
    <<<<"e", "f">>, "ef">>,
    <<<<"f", "i", "l">>, "fil">>,
    <<<<"c", "o", "l">>, "col">>,
    <<<<"a", "p">>, "ap">>
  }

\* the falsy result of normalize_book (Python None)
NotFound == ""

InTable(table, t) == \E e \in table : e[1] = t
Lookup(table, t) == (CHOOSE e \in table : e[1] = t)[2]

\* t.replace(".", "").replace("’", "'")
RECURSIVE ReplaceCharsFrom(_, _)
ReplaceCharsFrom(t, i) ==
    IF i > Len(t) THEN <<>>
    ELSE IF t[i] = "." THEN ReplaceCharsFrom(t, i + 1)
    ELSE IF t[i] = "rsquo" THEN <<"'">> \o ReplaceCharsFrom(t, i + 1)
    ELSE <<t[i]>> \o ReplaceCharsFrom(t, i + 1)

\* re.sub(r"\bw\b", "", t) for a literal word w
RECURSIVE RemoveWordFrom(_, _, _)
RemoveWordFrom(t, w, i) ==
    IF i > Len(t) THEN <<>>
    ELSE IF WordBoundary(t, i) /\ MatchLit(t, i, w) /\ WordBoundary(t, i + Len(w))
         THEN RemoveWordFrom(t, w, i + Len(w))
         ELSE <<t[i]>> \o RemoveWordFrom(t, w, i + 1)

\* re.sub(r"\bvv?\b", "", t)
RECURSIVE RemoveVVFrom(_, _)
RemoveVVFrom(t, i) ==
    IF i > Len(t) THEN <<>>
    ELSE IF WordBoundary(t, i) /\ MatchLit(t, i, <<"v", "v">>) /\ WordBoundary(t, i + 2)
         THEN RemoveVVFrom(t, i + 2)
    ELSE IF WordBoundary(t, i) /\ MatchLit(t, i, <<"v">>) /\ WordBoundary(t, i + 1)
         THEN RemoveVVFrom(t, i + 1)
    ELSE <<t[i]>> \o RemoveVVFrom(t, i + 1)

\* t.replace(sub, "")
RECURSIVE RemoveAllFrom(_, _, _)
RemoveAllFrom(t, sub, i) ==
    IF i > Len(t) THEN <<>>
    ELSE IF MatchLit(t, i, sub) THEN RemoveAllFrom(t, sub, i + Len(sub))
    ELSE <<t[i]>> \o RemoveAllFrom(t, sub, i + 1)

RemoveAll(t, sub) == RemoveAllFrom(t, sub, 1)

\* re.sub(r"^prefix\s+corinzi$", digit + " corinzi", t)
Corinzi(t, prefix, digit) ==
    LET p == Len(prefix) + 1
        q == RunEnd(t, p, SpaceSet)
    IN  IF MatchLit(t, 1, prefix) /\ q > p /\ SubSeq(t, q, Len(t)) = <<"c", "o", "r", "i", "n", "z", "i">>
        THEN <<digit, " ">> \o <<"c", "o", "r", "i", "n", "z", "i">>
        ELSE t

normalize_book(token) ==
    LET t1 == Lower(clean(token))
        t2 == ReplaceCharsFrom(t1, 1)
        t3 == Strip(RemoveWordFrom(t2, <<"c", "a", "p", "i", "t", "o", "l", "o">>, 1))
        t4 == Strip(RemoveVVFrom(t3, 1))
        t5 == RemoveAll(RemoveAll(RemoveAll(t4, <<"l", "e", "t", "t", "e", "r", "a", " ", "a", "i", " ">>),
                                  <<"l", "e", "t", "t", "e", "r", "a", " ", "a", "g", "l", "i", " ">>), <<"v", "a", "n", "g", "e", "l", "o", " ", "d", "i", " ">>)
        t6 == Corinzi(t5, <<"i">>, "1")
        t7 == Corinzi(t6, <<"i", "i">>, "2")
    IN  IF InTable(BOOK_ALIASES, t7) THEN Lookup(BOOK_ALIASES, t7)
        ELSE IF InTable(BOOK_SHORT, t7) THEN Lookup(BOOK_SHORT, t7)
        ELSE NotFound

----------------------------------------------------------------------------
(* The verse text of both grammars *)

\* re.match(r"^\d+\s*SEP\s*\d+$", v) for a one-character separator class
IsPairText(v, sepSet) ==
    LET d1 == RunEnd(v, 1, DigitSet)
        s1 == RunEnd(v, d1, SpaceSet)
        s2 == RunEnd(v, s1 + 1, SpaceSet)
        d2 == RunEnd(v, s2, DigitSet)
    IN  /\ d1 > 1
        /\ s1 <= Len(v) /\ v[s1] \in sepSet
        /\ d2 > s2
        /\ d2 = Len(v) + 1

\* a, b = re.split(SEP, v); v1, v2 = int(a.strip()), int(b.strip())
PairValues(v, sepSet) ==
    LET k == CHOOSE j \in 1..Len(v) :
                 v[j] \in sepSet /\ \A m \in 1..(j - 1) : v[m] \notin sepSet
    IN  <<ToInt(Strip(SubSeq(v, 1, k - 1))), ToInt(Strip(SubSeq(v, k + 1, Len(v))))>>

\* re.match(r"^\d+$", v)
IsNumberText(v) == Len(v) >= 1 /\ RunEnd(v, 1, DigitSet) = Len(v) + 1

\* faulty variant of SingleVerse: the end of the range left unset
SingleVerseNoEnd(v) == <<ToInt(v), None>>

\* v1 = v2 = int(v)
SingleVerse(v) == <<ToInt(v), ToInt(v)>>

\* the if / elif chain over the three shapes; <<v1, v2>>
VerseShapes(v) ==
    IF IsPairText(v, HyphenSet) THEN PairValues(v, HyphenSet)
    ELSE IF IsPairText(v, {"e"}) THEN PairValues(v, {"e"})
    ELSE IF IsNumberText(v) THEN SingleVerse(v)
    ELSE <<None, None>>

----------------------------------------------------------------------------
(* Grammar A: patt1 and the loop over its matches *)

NoMatch ==
    [ok |-> FALSE, book |-> <<>>, chap |-> <<>>, grp |-> FALSE,
     verses |-> <<>>, stop |-> 0]

\* the group (?P<verses>[\d\-–]+|[\d]+(?:\s*e\s*[\d]+)?|ss) tried at h, its
\* alternatives in the order written: the index after the capture, h if none
VersesEnd(t, h) ==
    LET alt1 == RunEnd(t, h, RangeCharSet)
        d1 == RunEnd(t, h, DigitSet)
        e0 == RunEnd(t, d1, SpaceSet)
        e1 == RunEnd(t, e0 + 1, SpaceSet)
        d2 == RunEnd(t, e1, DigitSet)
        alt2 == IF d1 = h THEN h
                ELSE IF e0 <= Len(t) /\ t[e0] \in {"e", "E"} /\ d2 > e1 THEN d2
                ELSE d1
        alt3 == IF MatchLitI(t, h, <<"s", "s">>) THEN h + 2 ELSE h
    IN  IF alt1 > h THEN alt1
        ELSE IF alt2 > h THEN alt2
        ELSE alt3

\* patt1 tried at position i
MatchA(t, i) ==
    LET p == IF t[i] \in {"1", "2"} THEN RunEnd(t, i + 1, SpaceSet) ELSE i
        pe == RunEnd(t, p, BookCharSet)
        q == RunEnd(t, pe, SpaceSet)
        de == RunEnd(t, q, DigitSet)
        ce == IMin(de, q + 3)
        g == RunEnd(t, ce, SpaceSet)
        h == IF g <= Len(t) /\ t[g] = "," THEN RunEnd(t, g + 1, SpaceSet) ELSE 0
        ve == IF h = 0 THEN 0 ELSE VersesEnd(t, h)
        grp == h # 0 /\ ve > h
    IN  IF WordBoundary(t, i) /\ pe > p /\ pe - p <= 10 /\ q > pe /\ de > q
        THEN [ok |-> TRUE, book |-> SubSeq(t, i, pe - 1),
              chap |-> SubSeq(t, q, ce - 1), grp |-> grp,
              verses |-> IF grp THEN SubSeq(t, h, ve - 1) ELSE <<>>,
              stop |-> IF grp THEN ve ELSE ce]
        ELSE NoMatch

\* book_raw.lower().replace(" ", "") first, book_raw second
BookKeyA(book) ==
    LET book_raw == clean(book)
        joined == normalize_book(RemoveAll(Lower(book_raw), <<" ">>))
    IN  IF joined # NotFound THEN joined ELSE normalize_book(book_raw)

\* v1, v2 of a patt1 match
VersesA(m) ==
    IF ~m.grp \/ m.verses = <<>> THEN <<None, None>>
    ELSE LET v == Lower(Strip(m.verses))
         IN  IF v = <<"s", "s">> THEN <<None, None>> ELSE VerseShapes(v)

\* for m in patt1.finditer(t): ...
RECURSIVE GrammarAFrom(_, _)
GrammarAFrom(t, i) ==
    IF i > Len(t) THEN <<>>
    ELSE LET m == MatchA(t, i)
         IN  IF ~m.ok THEN GrammarAFrom(t, i + 1)
             ELSE LET key == BookKeyA(m.book)
                      vs == VersesA(m)
                      found == IF key = NotFound THEN <<>>
                               ELSE <<Ref(key, ToInt(m.chap), vs[1], vs[2],
                                          SubSeq(t, i, m.stop - 1))>>
                  IN  found \o GrammarAFrom(t, m.stop)

GrammarA(t) == GrammarAFrom(t, 1)

----------------------------------------------------------------------------
(* Grammar B: patt2 and the loop over its matches *)

\* (?P<vtext>[\d\s\-–e]+) after the \s+ that started at p: <<first, end>> of
\* the capture, <<0, 0>> if the group fails
VTextSpan(t, p) ==
    LET s == RunEnd(t, p, SpaceSet)
        ve == RunEnd(t, s, VTextCharSet)
    IN  IF s = p THEN <<0, 0>>
        ELSE IF ve > s THEN <<s, ve>>
        ELSE IF s - p >= 2 THEN <<s - 1, s>>
        ELSE <<0, 0>>

\* (?:\s+v{1,2}\s+(?P<vtext>...))? tried at ce
VGroup(t, ce) ==
    LET g == RunEnd(t, ce, SpaceSet)
        two == IF g > ce /\ MatchLitI(t, g, <<"v", "v">>) THEN VTextSpan(t, g + 2) ELSE <<0, 0>>
        one == IF g > ce /\ MatchLitI(t, g, <<"v">>) THEN VTextSpan(t, g + 1) ELSE <<0, 0>>
    IN  IF two # <<0, 0>> THEN two ELSE one

\* \s+dal\s+capitolo\s+(?P<chap>\d{1,3})(...)? tried at j
RestB(t, j) ==
    LET s1 == RunEnd(t, j, SpaceSet)
        s2 == RunEnd(t, s1 + 3, SpaceSet)
        s3 == RunEnd(t, s2 + 8, SpaceSet)
        de == RunEnd(t, s3, DigitSet)
        ce == IMin(de, s3 + 3)
        vg == VGroup(t, ce)
    IN  IF /\ s1 > j /\ MatchLitI(t, s1, <<"d", "a", "l">>)
           /\ s2 > s1 + 3 /\ MatchLitI(t, s2, <<"c", "a", "p", "i", "t", "o", "l", "o">>)
           /\ s3 > s2 + 8 /\ de > s3
        THEN [ok |-> TRUE, book |-> <<>>, chap |-> SubSeq(t, s3, ce - 1),
              grp |-> vg # <<0, 0>>,
              verses |-> IF vg # <<0, 0>> THEN SubSeq(t, vg[1], vg[2] - 1) ELSE <<>>,
              stop |-> IF vg # <<0, 0>> THEN vg[2] ELSE ce]
        ELSE NoMatch

\* patt2 tried at position i: the lazy bookname takes the fewest characters
MatchB(t, i) ==
    LET lens == {k \in 1..(RunEnd(t, i, NameCharSet) - i) : RestB(t, i + k).ok}
        k == CHOOSE x \in lens : \A y \in lens : x <= y
    IN  IF WordBoundary(t, i) /\ lens # {}
        THEN [RestB(t, i + k) EXCEPT !.book = SubSeq(t, i, i + k - 1)]
        ELSE NoMatch

\* v1, v2 of a patt2 match
VersesB(m) ==
    IF ~m.grp \/ m.verses = <<>> THEN <<None, None>>
    ELSE VerseShapes(clean(m.verses))

\* for m in patt2.finditer(t_low): ...
RECURSIVE GrammarBFrom(_, _)
GrammarBFrom(t, i) ==
    IF i > Len(t) THEN <<>>
    ELSE LET m == MatchB(t, i)
         IN  IF ~m.ok THEN GrammarBFrom(t, i + 1)
             ELSE LET key == normalize_book(clean(m.book))
                      vs == VersesB(m)
                      found == IF key = NotFound THEN <<>>
                               ELSE <<Ref(key, ToInt(m.chap), vs[1], vs[2],
                                          SubSeq(t, i, m.stop - 1))>>
                  IN  found \o GrammarBFrom(t, m.stop)

GrammarB(t) == GrammarBFrom(t, 1)

----------------------------------------------------------------------------
(* De-duplication and parse_reference_flexible *)

\* faulty variant of DedupKey: the raw text taken into the key
DedupKeyWithRaw(r) == <<r.book, r.chapter, r.v1, r.v2, r.raw>>

\* key = (r.book, r.chapter, r.v1, r.v2)
DedupKey(r) == <<r.book, r.chapter, r.v1, r.v2>>

RECURSIVE DedupFrom(_, _, _)
DedupFrom(rs, i, seen) ==
    IF i > Len(rs) THEN <<>>
    ELSE IF DedupKey(rs[i]) \in seen THEN DedupFrom(rs, i + 1, seen)
    ELSE <<rs[i]>> \o DedupFrom(rs, i + 1, seen \cup {DedupKey(rs[i])})

Dedup(rs) == DedupFrom(rs, 1, {})

\* the list refs before de-duplication
AllMatches(txt) ==
    LET t == clean(txt)
        t_low == Lower(t)
    IN  GrammarA(t) \o GrammarB(t_low)

parse_reference_flexible(txt) == Dedup(AllMatches(txt))

----------------------------------------------------------------------------
(* Exact rationals standing for the floats of the scorer *)

RECURSIVE Gcd(_, _)
Gcd(x, y) == IF y = 0 THEN x ELSE Gcd(y, x % y)

Abs(x) == IF x < 0 THEN -x ELSE x

\* num/den in lowest terms with a positive denominator (den # 0)
Rat(num, den) ==
    LET g == Gcd(Abs(num), Abs(den))
        s == IF den < 0 THEN -1 ELSE 1
    IN  <<(s * num) \div g, (s * den) \div g>>

RAdd(x, y) == Rat(x[1] * y[2] + y[1] * x[2], x[2] * y[2])
RLeq(x, y) == x[1] * y[2] <= y[1] * x[2]
RLess(x, y) == x[1] * y[2] < y[1] * x[2]
\* Python max(x, y): y when y > x, else x
RMax(x, y) == IF RLess(x, y) THEN y ELSE x
\* Python min(x, y): y when y < x, else x
RMin(x, y) == IF RLess(y, x) THEN y ELSE x

Zero == Rat(0, 1)
WEAK_CHAPTER == Rat(30, 100)    \* 0.30
WEAK_BOOK == Rat(10, 100)       \* 0.10
SCORE_CAP == Rat(25, 10)        \* 2.5

----------------------------------------------------------------------------
(* verse_overlap *)

Inter(a1, a2, b1, b2) == IMax(0, IMin(a2, b2) - IMax(a1, b1) + 1)

\* faulty variant of UnionLen: the end of the first range taken for the larger end
UnionLenFirstEnd(a1, a2, b1, b2) == a2 - IMin(a1, b1) + 1

UnionLen(a1, a2, b1, b2) == IMax(a2, b2) - IMin(a1, b1) + 1

\* inter / union if union else 0.0
Jaccard(inter, union) == IF union # 0 THEN Rat(inter, union) ELSE Zero

\* faulty variant of WeakMatch: the weak chapter match forgotten
WeakMatchMissing == Zero

\* the value for a known chapter match with verses unknown on a side
WeakMatch == WEAK_CHAPTER

verse_overlap(x, y) ==
    IF x.book # y.book THEN Zero
    ELSE IF x.chapter = None \/ y.chapter = None THEN Zero
    ELSE IF x.chapter # y.chapter THEN Zero
    ELSE IF x.v1 = None \/ y.v1 = None THEN WeakMatch
    ELSE LET a1 == x.v1
             a2 == IF x.v2 # None THEN x.v2 ELSE x.v1
             b1 == y.v1
             b2 == IF y.v2 # None THEN y.v2 ELSE y.v1
         IN  Jaccard(Inter(a1, a2, b1, b2), UnionLen(a1, a2, b1, b2))

----------------------------------------------------------------------------
(* score_song_for_reading *)

\* value of one song reference of the same book for the reading reference rr
Candidate(rr, sr) ==
    IF rr.chapter = None \/ sr.chapter = None THEN WEAK_BOOK
    ELSE IF rr.chapter = sr.chapter THEN verse_overlap(rr, sr)
    ELSE WEAK_BOOK

\* one iteration of the inner loop over song.refs
BestStep(bst, rr, sr) ==
    IF rr.book # sr.book THEN bst ELSE RMax(bst, Candidate(rr, sr))

RECURSIVE BestFrom(_, _, _, _)
BestFrom(bst, rr, song, i) ==
    IF i > Len(song) THEN bst
    ELSE BestFrom(BestStep(bst, rr, song[i]), rr, song, i + 1)

\* the inner loop: best = 0.0; for sr in song.refs: ...
Best(rr, song) == BestFrom(Zero, rr, song, 1)

\* faulty variant of Accumulate: the sum overwritten instead of added to
AccumulateOverwrite(s, bst) == bst

\* score += best
Accumulate(s, bst) == RAdd(s, bst)

\* faulty variant of Cap: the cap left out
CapMissing(s) == s

\* return min(score, 2.5)
Cap(s) == RMin(s, SCORE_CAP)

RECURSIVE ScoreFrom(_, _, _, _)
ScoreFrom(s, reading, song, i) ==
    IF i > Len(reading) THEN s
    ELSE ScoreFrom(Accumulate(s, Best(reading[i], song)), reading, song, i + 1)

score_song_for_reading(reading, song) ==
    IF reading = <<>> THEN Zero
    ELSE Cap(ScoreFrom(Zero, reading, song, 1))

----------------------------------------------------------------------------
(* References handed to the scorer *)

Verses == (1..MaxVerse) \cup {WideVerse}

VerseOpts == {<<None, None>>} \cup (Verses \X Verses)

\* every Ref of one book: chapter unknown (then verses unknown too), or a
\* chapter with unknown verses or any pair v1, v2 (v1 > v2 included: the
\* parser emits it for a text such as "2-1")
BookRefs(book) ==
    {Ref(book, None, None, None, <<>>)}
    \cup {Ref(book, c, v[1], v[2], <<>>) : c \in 1..MaxChapter, v \in VerseOpts}

Refs == BookRefs("is") \cup BookRefs("gv")

\* the References of the score loop
ScoreRefs ==
    {Ref("is", 1, v[1], v[2], <<>>) :
        v \in {<<None, None>>, <<1, 1>>, <<1, MaxVerse>>, <<MaxVerse, 1>>}}
    \cup {Ref("is", MaxChapter, None, None, <<>>),
          Ref("is", None, None, None, <<>>),
          Ref("gv", 1, None, None, <<>>)}

RECURSIVE SeqsUpTo(_, _)
SeqsUpTo(S, k) ==
    IF k = 0 THEN {<<>>}
    ELSE LET shorter == SeqsUpTo(S, k - 1)
         IN  shorter \cup {Append(q, x) : q \in shorter, x \in S}

Songs == SeqsUpTo(ScoreRefs, MaxSong)

----------------------------------------------------------------------------
(* Spec: parse_reference_flexible applied to citation texts *)

\* numbers written with one digit
NumTexts == {<<DigitChars[d + 1]>> : d \in 0..MaxDigit}

\* chapters as written: one digit, a leading zero, more than three digits
ChapTexts == NumTexts \cup {<<"0", "1">>, <<"1", "2", "3", "4">>}

\* what stands between the two numbers of a verse specifier
Mids == {<<>>, <<"-">>, <<"ndash">>, <<" ", "e", " ">>, <<"e">>, <<"s", "s">>, <<" ", "-", " ">>}

BooksA == {<<"I", "s">>, <<"X", "x">>, <<"1", " ", "C", "o", "r">>}
BooksB == {<<"I", "s", "a", "i", "a">>, <<"x", "x">>}
MarkersA == {<<",">>}
MarkersB == {<<" ", "v", " ">>, <<" ", "v", "v", " ">>}

\* a second citation in the same text
Seconds == {<<>>, <<"I", "s", " ", "1">>, <<"i", "s", " ", "d", "a", "l", " ", "c", "a", "p", "i", "t", "o", "l", "o", " ", "1", " ", "v", "v", " ", "1", " ", "e", " ", "2">>}

Inputs ==
    {[form |-> f, book |-> bk, chap |-> ch, marker |-> mk,
      n1 |-> x, mid |-> md, n2 |-> y, second |-> snd] :
        f \in {"A", "B"},
        bk \in BooksA \cup BooksB,
        ch \in ChapTexts,
        mk \in {<<>>} \cup MarkersA \cup MarkersB,
        x \in {<<>>} \cup NumTexts,
        md \in Mids,
        y \in {<<>>} \cup NumTexts,
        snd \in Seconds}

WellFormedInput(r) ==
    /\ r.form = "A" => r.book \in BooksA /\ r.marker \in {<<>>} \cup MarkersA
    /\ r.form = "B" => r.book \in BooksB /\ r.marker \in {<<>>} \cup MarkersB
    /\ r.marker = <<>> => r.n1 = <<>> /\ r.mid = <<>> /\ r.n2 = <<>>

\* the verse specifier as written
SpecText(r) == r.n1 \o r.mid \o r.n2

\* the text as written
Render(r) ==
    (r.book
     \o (IF r.form = "A" THEN <<" ">> ELSE <<" ", "d", "a", "l", " ", "c", "a", "p", "i", "t", "o", "l", "o", " ">>)
     \o r.chap \o r.marker \o SpecText(r))
    \o (IF r.second = <<>> THEN <<>> ELSE <<" ", ";", "tab", " ">> \o r.second)

Init ==
    /\ inp \in {r \in Inputs : WellFormedInput(r)}
    /\ text = Render(inp)
    /\ refs = <<>> /\ uniq = <<>>
    /\ pc = "input"
    /\ a = Ref("is", None, None, None, <<>>) /\ b = Ref("is", None, None, None, <<>>)
    /\ ovl = Zero /\ ovl_rev = Zero /\ sc = Zero /\ pcO = "idle"
    /\ song_refs = <<>> /\ n = 0 /\ best = Zero /\ score = Zero /\ ret = Zero
    /\ pcS = "idle"

\* parse_reference_flexible(text)
Parse ==
    /\ pc = "input"
    /\ refs' = AllMatches(text)
    /\ uniq' = Dedup(refs')
    /\ pc' = "parsed"
    /\ UNCHANGED <<inp, text>>
    /\ UNCHANGED overlapVars
    /\ UNCHANGED scoreVars

Next == Parse

Spec == Init /\ [][Next]_vars

----------------------------------------------------------------------------
(* SpecOverlap: verse_overlap and score_song_for_reading on two References *)

InitOverlap ==
    /\ a \in Refs
    /\ b \in Refs
    /\ ovl = Zero /\ ovl_rev = Zero /\ sc = Zero
    /\ pcO = "input"
    /\ inp = <<>> /\ text = <<>> /\ refs = <<>> /\ uniq = <<>> /\ pc = "idle"
    /\ song_refs = <<>> /\ n = 0 /\ best = Zero /\ score = Zero /\ ret = Zero
    /\ pcS = "idle"

\* verse_overlap called both ways round
VerseOverlap ==
    /\ pcO = "input"
    /\ ovl' = verse_overlap(a, b)
    /\ ovl_rev' = verse_overlap(b, a)
    /\ pcO' = "overlapped"
    /\ UNCHANGED <<a, b, sc>>
    /\ UNCHANGED parseVars
    /\ UNCHANGED scoreVars

\* score_song_for_reading([a], Song(refs=[b]))
ScoreSingle ==
    /\ pcO = "overlapped"
    /\ sc' = score_song_for_reading(<<a>>, <<b>>)
    /\ pcO' = "scored"
    /\ UNCHANGED <<a, b, ovl, ovl_rev>>
    /\ UNCHANGED parseVars
    /\ UNCHANGED scoreVars

NextOverlap == VerseOverlap \/ ScoreSingle

SpecOverlap == InitOverlap /\ [][NextOverlap]_vars

----------------------------------------------------------------------------
(* SpecScore: score_song_for_reading, one reading reference per step *)

InitScore ==
    /\ song_refs \in Songs
    /\ n = 0 /\ best = Zero /\ score = Zero /\ ret = Zero
    /\ pcS = "start"
    /\ inp = <<>> /\ text = <<>> /\ refs = <<>> /\ uniq = <<>> /\ pc = "idle"
    /\ a = Ref("is", None, None, None, <<>>) /\ b = Ref("is", None, None, None, <<>>)
    /\ ovl = Zero /\ ovl_rev = Zero /\ sc = Zero /\ pcO = "idle"

\* if not reading_refs: return 0.0
ReturnEmpty ==
    /\ pcS = "start"
    /\ ret' = Zero
    /\ pcS' = "done"
    /\ UNCHANGED <<song_refs, n, best, score>>
    /\ UNCHANGED parseVars
    /\ UNCHANGED overlapVars

\* one iteration of: for rr in reading_refs
LoopStep(rr) ==
    /\ pcS \in {"start", "loop"}
    /\ n < MaxReading
    /\ best' = Best(rr, song_refs)
    /\ score' = Accumulate(score, best')
    /\ n' = n + 1
    /\ pcS' = "loop"
    /\ UNCHANGED <<song_refs, ret>>
    /\ UNCHANGED parseVars
    /\ UNCHANGED overlapVars

\* return min(score, 2.5)
Return ==
    /\ pcS = "loop"
    /\ ret' = Cap(score)
    /\ pcS' = "done"
    /\ UNCHANGED <<song_refs, n, best, score>>
    /\ UNCHANGED parseVars
    /\ UNCHANGED overlapVars

NextScore ==
    \/ ReturnEmpty
    \/ \E rr \in ScoreRefs : LoopStep(rr)
    \/ Return

SpecScore == InitScore /\ [][NextScore]_vars

----------------------------------------------------------------------------
(* Claims about the scorer *)

\* the float 1.0
One == Rat(1, 1)

Known(r) == r.chapter # None /\ r.v1 # None

\* the verses a known range covers
VerseSet(r) == r.v1 .. r.v2

\* C1: score_song_for_reading returns a value in [0, 2.5]: the sum of the
\* per-reference bests never goes negative and the returned value is capped
Thm_C1_ScoreInRange ==
    /\ RLeq(Zero, score)
    /\ pcS = "done" => RLeq(Zero, ret) /\ RLeq(ret, SCORE_CAP)

\* a returned score whose sum went over the cap
Wit_C1_Capped ==
    pcS = "done" /\ RLess(SCORE_CAP, score) /\ ret = SCORE_CAP

\* C2 (as claimed): verse_overlap(a, a) = 1.0 whenever chapter and v1 are known
Claim_C2_SelfOverlapIsOne ==
    (pcO = "overlapped" /\ a = b /\ Known(a) /\ a.v2 # None) => ovl = One

\* C3: verse_overlap(a, b) = verse_overlap(b, a) when both have known
\* chapter and verses
Thm_C3_OverlapSymmetric ==
    (pcO = "overlapped" /\ Known(a) /\ Known(b)) => ovl = ovl_rev

\* two different known ranges of one chapter that overlap in part
Wit_C3_PartialOverlap ==
    /\ pcO = "overlapped" /\ Known(a) /\ Known(b) /\ a # b
    /\ a.book = b.book /\ a.chapter = b.chapter
    /\ RLess(Zero, ovl) /\ RLess(ovl, One)

Claim_C5_SingleScores ==
    (pcO = "scored" /\ Known(a) /\ b.book = a.book /\ b.chapter = a.chapter) =>
        /\ (b.v1 = a.v1 /\ b.v2 = a.v2) => sc = One
        /\ (b.v1 # None /\ VerseSet(a) \cap VerseSet(b) = {}) => sc = Zero
        /\ b.v1 = None => sc = WEAK_CHAPTER

\* the song references of the same book in another (known) chapter
OtherChapter(rr) ==
    {sr \in Refs : sr.book = rr.book /\ sr.chapter # None /\ sr.chapter # rr.chapter}

\* the same-chapter reference b is worth at least every other-chapter one:
\* as a candidate, as the only reference of the song, and beside any other
\* reference c of the song
NeverBelowOtherChapter ==
    \A sr2 \in OtherChapter(a) :
        /\ RLeq(Candidate(a, sr2), Candidate(a, b))
        /\ RLeq(score_song_for_reading(<<a>>, <<sr2>>), sc)
        /\ \A c \in ScoreRefs :
              RLeq(score_song_for_reading(<<a>>, <<c, sr2>>),
                   score_song_for_reading(<<a>>, <<c, b>>))

\* C10 (as claimed): a song reference of the same book and chapter never
\* contributes less than one of the same book and another chapter, so that
\* replacing the latter by the former never lowers the score
Claim_C10_SameChapterNeverBelow ==
    (pcO = "scored" /\ a.chapter # None /\ b.book = a.book /\ b.chapter = a.chapter)
        => NeverBelowOtherChapter

\* verses unknown on a side, or a shared verse with the ranges' union at most
\* ten times their intersection
AtLeastATenth ==
    \/ a.v1 = None
    \/ b.v1 = None
    \/ /\ VerseSet(a) \cap VerseSet(b) # {}
       /\ 10 * Cardinality(VerseSet(a) \cap VerseSet(b))
            >= Cardinality(VerseSet(a) \cup VerseSet(b))

\* C10 (amended): a song reference of the same book and chapter contributes
\* at least as much as one of another chapter exactly when verses are unknown
\* on a side or the Jaccard overlap of the ranges is at least 1/10
Thm_C10_SameChapterAtLeastATenth ==
    (pcO = "scored" /\ a.chapter # None /\ b.book = a.book /\ b.chapter = a.chapter)
        => (AtLeastATenth <=> NeverBelowOtherChapter)

\* same chapter, both ranges known, overlapping in part by at least 1/10
Wit_C10_PartialAtLeastATenth ==
    /\ pcO = "scored" /\ Known(a) /\ Known(b)
    /\ b.book = a.book /\ b.chapter = a.chapter
    /\ RLeq(WEAK_BOOK, sc) /\ RLess(sc, One)

----------------------------------------------------------------------------
(* Claims about the parser *)

\* the first citation is one whose book resolves
BookResolves ==
    IF inp.form = "A" THEN BookKeyA(inp.book) # NotFound
    ELSE normalize_book(clean(inp.book)) # NotFound

\* the chapter is written with the one to three digits the patterns take
ChapterFits == Len(inp.chap) <= 3

\* C6 (as claimed): in Grammar A a resolvable book, a chapter, a comma and a
\* verse specifier give v1 = N, v2 = M for "N-M" (hyphen or en-dash) and for
\* "N e M", v1 = v2 = N for a bare number, and unknown verses for "ss" and
\* for any other string of digits and hyphens
Claim_C6_GrammarAShapes ==
    (pc = "parsed" /\ inp.form = "A" /\ BookResolves /\ ChapterFits
        /\ inp.marker # <<>>) =>
        LET r == uniq[1]
            both == inp.n1 # <<>> /\ inp.n2 # <<>>
        IN  /\ Len(uniq) >= 1
            /\ (both /\ inp.mid \in {<<"-">>, <<"ndash">>})
                 => r.v1 = ToInt(inp.n1) /\ r.v2 = ToInt(inp.n2)
            /\ (both /\ inp.mid = <<" ", "e", " ">>)
                 => r.v1 = ToInt(inp.n1) /\ r.v2 = ToInt(inp.n2)
            /\ (inp.mid = <<>> /\ SpecText(inp) # <<>>)
                 => r.v1 = ToInt(SpecText(inp)) /\ r.v2 = r.v1
            /\ (inp.mid = <<"s", "s">> /\ inp.n1 = <<>> /\ inp.n2 = <<>>)
                 => r.v1 = None /\ r.v2 = None
            /\ (~both /\ inp.mid \in {<<"-">>, <<"ndash">>})
                 => r.v1 = None /\ r.v2 = None

\* C7: every returned Reference has a known chapter, and v2 is set exactly
\* when v1 is; a single verse gives v2 = v1
Thm_C7_ChapterKnownVersesPaired ==
    pc = "parsed" =>
        /\ \A k \in DOMAIN uniq :
              /\ uniq[k].chapter # None
              /\ uniq[k].v1 = None <=> uniq[k].v2 = None
        /\ (BookResolves /\ ChapterFits /\ inp.second = <<>> /\ inp.marker # <<>>
                /\ inp.mid = <<>> /\ SpecText(inp) # <<>>)
             => /\ Len(uniq) = 1
                /\ uniq[1].v1 # None
                /\ uniq[1].v2 = uniq[1].v1

\* a single verse returned by Grammar B beside a Reference without verses
Wit_C7_SingleVerse ==
    /\ pc = "parsed" /\ inp.form = "B" /\ inp.mid = <<>> /\ inp.n1 # <<>>
    /\ Len(uniq) = 2
    /\ uniq[1].v1 = None /\ uniq[2].v1 # None

\* the key of the de-duplication, as the claim states it
Tuple4(r) == <<r.book, r.chapter, r.v1, r.v2>>

\* positions of refs whose tuple occurs at no earlier position
FirstOccurrences ==
    {i \in DOMAIN refs : \A j \in 1..(i - 1) : Tuple4(refs[j]) # Tuple4(refs[i])}

\* the k-th smallest first occurrence
KthFirst(k) ==
    CHOOSE i \in FirstOccurrences :
        Cardinality({j \in FirstOccurrences : j <= i}) = k

\* C8: the returned list holds no two References with the same
\* (book, chapter, v1, v2); it is the list of matches (Grammar A's, then
\* Grammar B's) with every later duplicate removed, the first occurrences
\* kept in their order; a Grammar A match written after a Grammar B match
\* comes first
Thm_C8_Deduplicated ==
    pc = "parsed" =>
        /\ \A i, j \in DOMAIN uniq : i # j => Tuple4(uniq[i]) # Tuple4(uniq[j])
        /\ Len(uniq) = Cardinality(FirstOccurrences)
        /\ \A k \in DOMAIN uniq : uniq[k] = refs[KthFirst(k)]
        /\ (inp.form = "B" /\ BookResolves /\ inp.second = <<"I", "s", " ", "1">>)
             => uniq[1].raw = inp.second

\* a duplicate with another raw text was removed
Wit_C8_DuplicateRemoved ==
    /\ pc = "parsed" /\ Len(uniq) < Len(refs)
    /\ \E i, j \in DOMAIN refs :
          i < j /\ Tuple4(refs[i]) = Tuple4(refs[j]) /\ refs[i].raw # refs[j].raw

\* C9 (as claimed): every returned Reference has chapter >= 1 and, when
\* verses are known, 1 <= v1 <= v2
Claim_C9_WellFormedRange ==
    pc = "parsed" =>
        \A k \in DOMAIN uniq :
            /\ uniq[k].chapter >= 1
            /\ uniq[k].v1 # None => (1 <= uniq[k].v1 /\ uniq[k].v1 <= uniq[k].v2)

====
